---- MODULE Spec2Model ----
(***************************************************************************)
(* canvas-leaderboard: LeaderboardBuilder (src/src/LeaderboardBuilder.ts). *)
(* The builder's fields are the configuration; build() is modelled as the  *)
(* sequence of its drawing steps on a canvas whose content is the list of  *)
(* draw operations committed so far, each with the context state it saw.   *)
(* JS numbers that come out of a division are kept as pairs <<num, den>>;  *)
(* <<0, 0>> is NaN.                                                        *)
(***************************************************************************)
EXTENDS Integers, Sequences, FiniteSets, TLC

\* ---------------------------------------------------------------- bounds
MaxUsers == 2
MaxTiers == 2
MaxSpots == 2
MaxColors == 3
MaxCalls == 2
MaxXp == 5
MaxRows == 4

\* ------------------------------------------------------ program constants
Width == 900
RowHeight == 100
BottomPadding == 20
HeaderTall == 150
HeaderShort == 120
BarStartX == 450
BarHeight == 10
BarWide == 350
BarNarrow == 200

\* -------------------------------------------------------------- JS values
\* a / b in JS: the exact quotient; 0/0 is NaN, x/0 is an infinity.
Div(a, b) == <<a, b>>
IsNaN(q) == q[1] = 0 /\ q[2] = 0
\* q > 0 (false for NaN)
Positive(q) == (q[1] > 0 /\ q[2] >= 0) \/ (q[1] < 0 /\ q[2] < 0)
\* Math.min(q, 1) for a quotient q with a non-negative denominator
MinOne(q) == IF IsNaN(q) THEN q ELSE IF q[1] > q[2] THEN <<1, 1>> ELSE q
\* k * q
Scale(k, q) == <<k * q[1], q[2]>>
\* q is a number in [0, 1]
InUnit(q) == q[2] > 0 /\ 0 <= q[1] /\ q[1] <= q[2]
\* q <= k for a number q with a positive denominator
AtMost(q, k) == q[2] > 0 /\ q[1] <= k * q[2]
NumEq(p, q) == p[2] # 0 /\ q[2] # 0 /\ p[1] * q[2] = q[1] * p[2]

Max(a, b) == IF a >= b THEN a ELSE b
Min(a, b) == IF a <= b THEN a ELSE b

\* a field of an object, "" when it is absent (undefined and '' are both
\* falsy, which is all the code asks of an optional string)
Field(obj, k) == IF k \in DOMAIN obj THEN obj[k] ELSE ""
Has(obj, k) == k \in DOMAIN obj

\* Array.prototype.slice(0, end)
Slice(s, end) ==
    LET n == Len(s)
        e == IF end < 0 THEN Max(n + end, 0) ELSE Min(end, n)
    IN SubSeq(s, 1, e)

\* --------------------------------------------------------------- inputs
Roster ==
    << [nickname |-> "ann", avatarUrl |-> "ann.png", level |-> 9, xp |-> 3, neededXp |-> 2],
       [nickname |-> "bob", avatarUrl |-> "bob.png", level |-> 7, xp |-> 1, neededXp |-> 2],
       [nickname |-> "cyd", avatarUrl |-> "cyd.png", level |-> 5, xp |-> 0, neededXp |-> 2],
       [nickname |-> "dee", avatarUrl |-> "dee.png", level |-> 1, xp |-> 2, neededXp |-> 0] >>

\* the participant lists a caller passes: runs of the roster
UserLists ==
    { u \in { SubSeq(Roster, a, b) : a \in 1..Len(Roster), b \in 0..Len(Roster) } :
        Len(u) <= MaxUsers }

Limits == { 0 - 1 } \cup (0..MaxUsers)

\* limit: number | null, as << >> for null and <<n>> for the number n
NoLimit == << >>

TierPool ==
    { [name |-> "Novice", color |-> "#B9BBBE", minXp |-> 1],
      [name |-> "Pro", color |-> "#5865F2", minXp |-> 2],
      [name |-> "Elite", color |-> "#E0B0FF", minXp |-> 2],
      [name |-> "Master", color |-> "#FFD700", minXp |-> 4] }

SeqsUpTo(S, n) == UNION { [1..k -> S] : k \in 0..n }

Injective(s) == \A a, b \in DOMAIN s : s[a] = s[b] => a = b

TierLists == { t \in SeqsUpTo(TierPool, MaxTiers) : Injective(t) }

XpRange == 0..MaxXp

Palette == << "#ff0000", "#00ff00", "#0000ff", "#ffff00", "#00ffff" >>

GradientTypes ==
    { "linear-left-right", "linear-right-left", "linear-top-bottom",
      "linear-bottom-top", "linear-top-left-bottom-right",
      "linear-top-right-bottom-left", "radial", "conic" }

SpotPool ==
    << [color |-> "#5865f2", x |-> 0, y |-> 0, radius |-> 500],
       [color |-> "#be4eea", x |-> 900, y |-> 800, radius |-> 600],
       [color |-> "#00ffaa", x |-> 450, y |-> 100, radius |-> 300] >>

\* BackgroundOptions = string | GradientOptions | AuroraBackgroundOptions;
\* one record shape for the three, `kind` is what typeof tells apart.
SolidBg(c) ==
    [kind |-> "string", value |-> c, type |-> "", colors |-> << >>,
     baseColor |-> "", spots |-> << >>]
GradientBg(t, cs) ==
    [kind |-> "object", value |-> "", type |-> t, colors |-> cs,
     baseColor |-> "", spots |-> << >>]
AuroraBg(b, ss) ==
    [kind |-> "object", value |-> "", type |-> "aurora", colors |-> << >>,
     baseColor |-> b, spots |-> ss]

Backgrounds ==
    { SolidBg("#2C2F33") }
      \cup { GradientBg(t, SubSeq(Palette, 1, 2)) : t \in GradientTypes }
      \cup { GradientBg("radial", SubSeq(Palette, 1, n)) : n \in 1..MaxColors }
      \cup { AuroraBg("#0D0E12", SubSeq(SpotPool, 1, n)) : n \in 0..MaxSpots }

Headers ==
    { [title |-> "Global"],
      [title |-> "Global", subtitle |-> ""],
      [title |-> "Global", subtitle |-> "Top players"] }

Podiums ==
    { [colors |-> << >>],
      [colors |-> [first |-> "#FFD700"]],
      [colors |-> [third |-> "#CD7F32"]],
      [colors |-> [second |-> "#C0C0C0", third |-> "#CD7F32"]],
      [colors |-> [first |-> "#FFD700", second |-> "#C0C0C0", third |-> "#CD7F32"]] }

XpBars == { [primary |-> "#00ff00", secondary |-> "#00aa00"] }

FontInputs ==
    { [xpText |-> "bold 12px Arial"],
      [headerTitle |-> "bold 48px Arial", rankText |-> ""] }

AvatarOutcomes == { "drawn", "fetchFailed", "drawFailed" }

\* ------------------------------------------------------- drawing context
\* fillStyle / strokeStyle: a colour string or a gradient object
Color(c) == [kind |-> "color", color |-> c, geom |-> << >>, stops |-> << >>]
Gradient(k, g) == [kind |-> k, color |-> "", geom |-> g, stops |-> << >>]
\* CanvasGradient.addColorStop(offset, color)
AddColorStop(g, offset, c) ==
    [g EXCEPT !.stops = Append(@, [offset |-> offset, color |-> c])]

Opaque == <<1, 1>>
AuroraAlpha == <<4, 10>>

\* clip: the rows whose avatar circles the clip region is the intersection
\* of; {} is the whole canvas.
\* the state of a context fresh from canvas.getContext('2d')
FreshCtx ==
    [fillStyle |-> Color("#000000"), strokeStyle |-> Color("#000000"),
     lineWidth |-> 1, font |-> "10px sans-serif", textAlign |-> "start",
     globalAlpha |-> Opaque, shadowColor |-> "transparent", shadowBlur |-> 0,
     clip |-> {}]

\* one committed draw operation, with the context state it was drawn under;
\* `part` names the statement of build() that drew it, `row` is the loop
\* index (-1 outside the loop)
Op(c, op, part, row, text, x, y, w, h) ==
    [op |-> op, part |-> part, row |-> row, text |-> text, x |-> x, y |-> y, w |-> w, h |-> h,
     style |-> IF op = "stroke" THEN c.strokeStyle ELSE c.fillStyle,
     lineWidth |-> c.lineWidth, font |-> c.font, textAlign |-> c.textAlign,
     globalAlpha |-> c.globalAlpha, shadowColor |-> c.shadowColor, clip |-> c.clip]

Whole(n) == <<n, 1>>

\* ------------------------------------------------------------------ state
VARIABLES
    users, limit, background, header, podium, rankVisible, rankTiers,
    xpBarColors, fontStyles,   \* the builder's fields
    calls,                     \* configuration calls made on the builder
    pc,                        \* where build() stands
    builds,                    \* build() calls started
    usersToRender, headerHeight, canvas, ctx, ctxStack, i, spot,
                               \* build()'s locals
    fetch,                     \* the pending loadImage promise
    log,                       \* draw operations committed to the canvas
    outcomes,                  \* how each row's avatar step ended
    prevLog, prevOutcomes,     \* log and outcomes of the previous build()
    tiersPassed                \* the list last passed to setRankTiers, as passed

config ==
    << users, limit, background, header, podium, rankVisible, rankTiers,
       xpBarColors, fontStyles >>
locals == << usersToRender, headerHeight, canvas, ctx, ctxStack, i, spot >>
history == << prevLog, prevOutcomes >>
passed == << tiersPassed >>
vars == << config, calls, pc, builds, locals, fetch, log, outcomes, history, passed >>

\* the builder after `new LeaderboardBuilder()`
Init ==
    /\ users = << >>
    /\ limit = NoLimit
    /\ background = SolidBg("#0D0E12")
    /\ header = [title |-> "Leaderboard"]
    /\ podium = << >>
    /\ rankVisible = TRUE
    /\ rankTiers = << >>
    /\ xpBarColors = [primary |-> "#5865F2", secondary |-> "#A458F2"]
    /\ fontStyles = << >>
    /\ calls = 0
    /\ pc = "config"
    /\ builds = 0
    /\ usersToRender = << >>
    /\ headerHeight = 0
    /\ canvas = [width |-> 0, height |-> 0]
    /\ ctx = FreshCtx
    /\ ctxStack = << >>
    /\ i = 0
    /\ spot = 0
    /\ fetch = "none"
    /\ log = << >>
    /\ outcomes = << >>
    /\ prevLog = << >>
    /\ prevOutcomes = << >>
    /\ tiersPassed = << >>

\* A builder as a chain of configuration calls leaves it, build() not yet
\* called: every field holds a value its setter stores.
Configured(u, l, b, h, p, v, t, x, f) ==
    /\ users = u
    /\ limit = l
    /\ background = b
    /\ header = h
    /\ podium = p
    /\ rankVisible = v
    /\ rankTiers = t
    /\ xpBarColors = x
    /\ fontStyles = f
    /\ calls = MaxCalls
    /\ pc = "config"
    /\ builds = 0
    /\ usersToRender = << >>
    /\ headerHeight = 0
    /\ canvas = [width |-> 0, height |-> 0]
    /\ ctx = FreshCtx
    /\ ctxStack = << >>
    /\ i = 0
    /\ spot = 0
    /\ fetch = "none"
    /\ log = << >>
    /\ outcomes = << >>
    /\ prevLog = << >>
    /\ prevOutcomes = << >>
    /\ tiersPassed = t

\* ------------------------------------------------- configuration methods
\* build() is the last call of the chain: the setters run before it.
Configuring == pc = "config" /\ calls < MaxCalls

Rest == << pc, builds, locals, fetch, log, outcomes, history >>

setUsers(u) ==
    /\ Configuring
    /\ users' = u
    /\ calls' = calls + 1
    /\ UNCHANGED << limit, background, header, podium, rankVisible, rankTiers,
                    xpBarColors, fontStyles, Rest, passed >>

setHeader(options) ==
    /\ Configuring
    /\ header' = options
    /\ calls' = calls + 1
    /\ UNCHANGED << users, limit, background, podium, rankVisible, rankTiers,
                    xpBarColors, fontStyles, Rest, passed >>

setPodium(options) ==
    /\ Configuring
    /\ podium' = options
    /\ calls' = calls + 1
    /\ UNCHANGED << users, limit, background, header, rankVisible, rankTiers,
                    xpBarColors, fontStyles, Rest, passed >>

showRank(visible) ==
    /\ Configuring
    /\ rankVisible' = visible
    /\ calls' = calls + 1
    /\ UNCHANGED << users, limit, background, header, podium, rankTiers,
                    xpBarColors, fontStyles, Rest, passed >>

\* Array.prototype.sort with (a, b) => b.minXp - a.minXp: descending by minXp,
\* equal keys keeping their order (the sort is stable).
\* the tiers stored as they were passed
SortTiersOmitted(tiers) == tiers

\* a tier placed ahead of the tiers of equal minXp already in place
InsertTierBeforeEquals(sorted, t) ==
    LET k == Cardinality({ j \in 1..Len(sorted) : sorted[j].minXp > t.minXp })
    IN SubSeq(sorted, 1, k) \o << t >> \o SubSeq(sorted, k + 1, Len(sorted))

RECURSIVE SortTiers(_)
\* a tier placed behind every tier already in place whose minXp is not smaller
InsertTier(sorted, t) ==
    LET k == Cardinality({ j \in 1..Len(sorted) : sorted[j].minXp >= t.minXp })
    IN SubSeq(sorted, 1, k) \o << t >> \o SubSeq(sorted, k + 1, Len(sorted))
SortTiers(tiers) ==
    IF tiers = << >> THEN << >>
    ELSE InsertTier(SortTiers(SubSeq(tiers, 1, Len(tiers) - 1)), tiers[Len(tiers)])

setRankTiers(tiers) ==
    /\ Configuring
    /\ rankTiers' = SortTiers(tiers)
    /\ tiersPassed' = tiers
    /\ calls' = calls + 1
    /\ UNCHANGED << users, limit, background, header, podium, rankVisible,
                    xpBarColors, fontStyles, Rest >>

setXpBarColors(colors) ==
    /\ Configuring
    /\ xpBarColors' = colors
    /\ calls' = calls + 1
    /\ UNCHANGED << users, limit, background, header, podium, rankVisible,
                    rankTiers, fontStyles, Rest, passed >>

\* { ...this.fontStyles, ...styles }
Merge(a, b) ==
    [k \in DOMAIN a \cup DOMAIN b |-> IF k \in DOMAIN b THEN b[k] ELSE a[k]]

setFontStyles(styles) ==
    /\ Configuring
    /\ fontStyles' = Merge(fontStyles, styles)
    /\ calls' = calls + 1
    /\ UNCHANGED << users, limit, background, header, podium, rankVisible,
                    rankTiers, xpBarColors, Rest, passed >>

setLimit(count) ==
    /\ Configuring
    /\ limit' = << count >>
    /\ calls' = calls + 1
    /\ UNCHANGED << users, background, header, podium, rankVisible, rankTiers,
                    xpBarColors, fontStyles, Rest, passed >>

setBackground(options) ==
    /\ Configuring
    /\ background' = options
    /\ calls' = calls + 1
    /\ UNCHANGED << users, limit, header, podium, rankVisible, rankTiers,
                    xpBarColors, fontStyles, Rest, passed >>

\* ------------------------------------------------------------ getRankForXp
\* Array.prototype.find: the first element the predicate holds for
FirstQualifying(tiers, xp) ==
    LET hits == { j \in 1..Len(tiers) : xp >= tiers[j].minXp }
    IN IF hits = {} THEN << >>
       ELSE << tiers[CHOOSE j \in hits : \A k \in hits : j <= k] >>

\* RankTier | null, as <<tier>> or << >>
getRankForXp(xp) ==
    IF Len(rankTiers) = 0 THEN << >> ELSE FirstQualifying(rankTiers, xp)

\* ------------------------------------------------------------------ build
Truthy(str) == str # ""

\* this.limit ? this.users.slice(0, this.limit) : this.users
UsersToRender(us, lim) ==
    IF lim # NoLimit /\ lim[1] # 0 THEN Slice(us, lim[1]) ELSE us

\* the taller header for any subtitle that is present, the empty one too
HeaderHeightIfPresent(h) == IF Has(h, "subtitle") THEN HeaderTall ELSE HeaderShort

\* this.header.subtitle ? 150 : 120
HeaderHeightOf(h) == IF Truthy(Field(h, "subtitle")) THEN HeaderTall ELSE HeaderShort

CanvasHeight(hh, n) == hh + (n * RowHeight) + BottomPadding

\* this.fontStyles.<key> || <fallback>
FontOr(key, fallback) ==
    IF Truthy(Field(fontStyles, key)) THEN fontStyles[key] ELSE fallback

\* the limit applied to this.users itself
StartBuildTruncating ==
    /\ usersToRender' = UsersToRender(users, limit)
    /\ users' = usersToRender'
    /\ headerHeight' = HeaderHeightOf(header)
    /\ canvas' = [width |-> Width,
                  height |-> CanvasHeight(headerHeight', Len(usersToRender'))]
    /\ ctx' = FreshCtx
    /\ ctxStack' = << >>
    /\ i' = 0
    /\ spot' = 0
    /\ fetch' = "none"
    /\ log' = << >>
    /\ outcomes' = << >>
    /\ builds' = builds + 1
    /\ pc' = "background"
    /\ UNCHANGED << limit, background, header, podium, rankVisible, rankTiers,
                    xpBarColors, fontStyles, calls >>

\* build() up to the creation of the canvas and its context
StartBuild ==
    /\ usersToRender' = UsersToRender(users, limit)
    /\ headerHeight' = HeaderHeightOf(header)
    /\ canvas' = [width |-> Width,
                  height |-> CanvasHeight(headerHeight', Len(usersToRender'))]
    /\ ctx' = FreshCtx
    /\ ctxStack' = << >>
    /\ i' = 0
    /\ spot' = 0
    /\ fetch' = "none"
    /\ log' = << >>
    /\ outcomes' = << >>
    /\ builds' = builds + 1
    /\ pc' = "background"
    /\ UNCHANGED << config, calls >>

\* the first build() of the builder
BuildBegin ==
    /\ pc = "config"
    /\ StartBuild
    /\ UNCHANGED << history, passed >>

\* build() called again on the same builder once the first has returned
BuildAgain ==
    /\ pc = "done"
    /\ builds = 1
    /\ StartBuild
    /\ prevLog' = log
    /\ prevOutcomes' = outcomes
    /\ UNCHANGED passed

FullRect(c, part) == Op(c, "fillRect", part, 0 - 1, "", 0, 0, Whole(canvas.width), canvas.height)

PaintSolid ==
    /\ pc = "background"
    /\ background.kind = "string"
    /\ LET c1 == [ctx EXCEPT !.fillStyle = Color(background.value)]
       IN /\ ctx' = c1
          /\ log' = Append(log, FullRect(c1, "background"))
    /\ pc' = "header"
    /\ UNCHANGED << config, calls, builds, usersToRender, headerHeight, canvas,
                    ctxStack, i, spot, fetch, outcomes, history, passed >>

AuroraBase ==
    /\ pc = "background"
    /\ background.kind = "object"
    /\ background.type = "aurora"
    /\ LET c1 == [ctx EXCEPT !.fillStyle = Color(background.baseColor)]
       IN /\ log' = Append(log, FullRect(c1, "background"))
          /\ ctx' = [c1 EXCEPT !.globalAlpha = AuroraAlpha]
    /\ spot' = 1
    /\ pc' = "aurora"
    /\ UNCHANGED << config, calls, builds, usersToRender, headerHeight, canvas,
                    ctxStack, i, fetch, outcomes, history, passed >>

SpotGradient(sp) ==
    AddColorStop(
        AddColorStop(Gradient("radial", <<sp.x, sp.y, 0, sp.x, sp.y, sp.radius>>),
                     Whole(0), sp.color),
        Whole(1), sp.color \o "00")

AuroraSpot ==
    /\ pc = "aurora"
    /\ spot <= Len(background.spots)
    /\ LET c1 == [ctx EXCEPT !.fillStyle = SpotGradient(background.spots[spot])]
       IN /\ ctx' = c1
          /\ log' = Append(log, FullRect(c1, "spot"))
    /\ spot' = spot + 1
    /\ UNCHANGED << config, calls, pc, builds, usersToRender, headerHeight,
                    canvas, ctxStack, i, fetch, outcomes, history, passed >>

\* the loop over the spots ends and globalAlpha is left as it is
AuroraEndAlphaKept ==
    /\ pc = "aurora"
    /\ spot > Len(background.spots)
    /\ pc' = "header"
    /\ UNCHANGED << config, calls, builds, usersToRender, headerHeight, canvas,
                    ctx, ctxStack, i, spot, fetch, log, outcomes, history, passed >>

\* ctx.globalAlpha = 1 after the loop over the spots
AuroraEnd ==
    /\ pc = "aurora"
    /\ spot > Len(background.spots)
    /\ ctx' = [ctx EXCEPT !.globalAlpha = Opaque]
    /\ pc' = "header"
    /\ UNCHANGED << config, calls, builds, usersToRender, headerHeight, canvas,
                    ctxStack, i, spot, fetch, log, outcomes, history, passed >>

\* the switch on gradientOptions.type
GradientFor(type, w, h) ==
    CASE type = "linear-left-right" -> Gradient("linear", <<0, 0, w, 0>>)
      [] type = "linear-right-left" -> Gradient("linear", <<w, 0, 0, 0>>)
      [] type = "linear-top-bottom" -> Gradient("linear", <<0, 0, 0, h>>)
      [] type = "linear-bottom-top" -> Gradient("linear", <<0, h, 0, 0>>)
      [] type = "linear-top-left-bottom-right" -> Gradient("linear", <<0, 0, w, h>>)
      [] type = "linear-top-right-bottom-left" -> Gradient("linear", <<w, 0, 0, h>>)
      [] type = "radial" ->
            Gradient("radial",
                     <<w \div 2, h \div 2, 0, w \div 2, h \div 2, Max(w, h) \div 2>>)
      [] OTHER -> Gradient("linear", <<0, 0, w, h>>)

\* index / (gradientOptions.colors.length - 1), index counted from 0
StopOffset(index, count) == Div(index, count - 1)

\* gradientOptions.colors.forEach((color, index) => gradient.addColorStop(...))
RECURSIVE AddStops(_, _, _)
AddStops(g, colors, n) ==
    IF n = 0 THEN g
    ELSE AddColorStop(AddStops(g, colors, n - 1),
                      StopOffset(n - 1, Len(colors)), colors[n])

\* What addColorStop does with an offset that is no number in [0, 1] is the
\* canvas library's: it raises, or keeps the stop and paints something.
StopsAccepted(g) == \A k \in DOMAIN g.stops : InUnit(g.stops[k].offset)

PaintGradient ==
    /\ pc = "background"
    /\ background.kind = "object"
    /\ background.type # "aurora"
    /\ LET g == AddStops(GradientFor(background.type, canvas.width, canvas.height),
                         background.colors, Len(background.colors))
           c1 == [ctx EXCEPT !.fillStyle = g]
       IN \/ /\ ctx' = c1
             /\ log' = Append(log, FullRect(c1, "background"))
             /\ pc' = "header"
          \/ /\ ~StopsAccepted(g)
             /\ pc' = "rejected"
             /\ UNCHANGED << ctx, log >>
    /\ UNCHANGED << config, calls, builds, usersToRender, headerHeight, canvas,
                    ctxStack, i, spot, fetch, outcomes, history, passed >>

DrawHeader ==
    /\ pc = "header"
    /\ LET c1 == [ctx EXCEPT !.textAlign = "center",
                             !.fillStyle = Color("#FFFFFF"),
                             !.font = FontOr("headerTitle", "bold 42px Roboto"),
                             !.shadowColor = "rgba(0, 0, 0, 0.5)",
                             !.shadowBlur = 10]
           o1 == Op(c1, "fillText", "title", 0 - 1, header.title, Width \div 2, 85, Whole(0), 0)
           sub == Truthy(Field(header, "subtitle"))
           c2 == IF sub
                 THEN [c1 EXCEPT !.font = FontOr("headerSubtitle", "22px Roboto"),
                                 !.fillStyle = Color("#B9BBBE")]
                 ELSE c1
           o2 == Op(c2, "fillText", "subtitle", 0 - 1, Field(header, "subtitle"), Width \div 2, 115,
                    Whole(0), 0)
       IN /\ log' = IF sub THEN log \o << o1, o2 >> ELSE Append(log, o1)
          /\ ctx' = [c2 EXCEPT !.shadowColor = "transparent"]
    /\ pc' = "row"
    /\ UNCHANGED << config, calls, builds, usersToRender, headerHeight, canvas,
                    ctxStack, i, spot, fetch, outcomes, history, passed >>

\* the first accent colour configured, whatever the row's position
PodiumColorOfAnyPosition(position) ==
    LET colors == IF Has(podium, "colors") THEN podium.colors ELSE << >>
    IN IF Truthy(Field(colors, "first")) THEN Field(colors, "first")
       ELSE IF Truthy(Field(colors, "second")) THEN Field(colors, "second")
       ELSE Field(colors, "third")

\* (position === 1 && colors?.first) || (position === 2 && colors?.second)
\*   || (position === 3 && colors?.third); "" stands for every falsy result
PodiumColor(position) ==
    LET colors == IF Has(podium, "colors") THEN podium.colors ELSE << >>
        a == IF position = 1 THEN Field(colors, "first") ELSE ""
        b == IF position = 2 THEN Field(colors, "second") ELSE ""
        c == IF position = 3 THEN Field(colors, "third") ELSE ""
    IN IF Truthy(a) THEN a ELSE IF Truthy(b) THEN b ELSE c

RowY(row) == headerHeight + row * RowHeight

\* loadImage is called and build() goes on without waiting for it
AwaitAvatarSkipped ==
    /\ fetch' = "pending"
    /\ pc' = "details"

\* await loadImage(player.avatarUrl): build() suspends until it settles
AwaitAvatar ==
    /\ fetch' = "pending"
    /\ pc' = "await"

\* the row's card, border, podium accent and position, up to the call of
\* loadImage, where build() suspends
RowBegin ==
    /\ pc = "row"
    /\ i < Len(usersToRender)
    /\ LET position == i + 1
           y == RowY(i)
           c1 == [ctx EXCEPT !.fillStyle = Color("rgba(255, 255, 255, 0.04)")]
           o1 == Op(c1, "fill", "card", i, "", 30, y, Whole(Width - 60), 90)
           c2 == [c1 EXCEPT !.strokeStyle = Color("rgba(255, 255, 255, 0.1)"),
                            !.lineWidth = 1]
           o2 == Op(c2, "stroke", "border", i, "", 30, y, Whole(Width - 60), 90)
           podiumColor == PodiumColor(position)
           c3 == IF Truthy(podiumColor)
                 THEN [c2 EXCEPT !.strokeStyle = Color(podiumColor), !.lineWidth = 2]
                 ELSE c2
           o3 == Op(c3, "stroke", "podium", i, "", 30, y, Whole(Width - 60), 90)
           c4 == [c3 EXCEPT !.font = FontOr("userPosition", "bold 30px Roboto"),
                            !.fillStyle = Color("#B9BBBE"),
                            !.textAlign = "center"]
           o4 == Op(c4, "fillText", "position", i, ToString(position), 80, y + 58, Whole(0), 0)
       IN /\ ctx' = c4
          /\ log' = log \o << o1, o2 >>
                        \o (IF Truthy(podiumColor) THEN << o3 >> ELSE << >>)
                        \o << o4 >>
    /\ AwaitAvatar
    /\ UNCHANGED << config, calls, builds, usersToRender, headerHeight, canvas,
                    ctxStack, i, spot, outcomes, history, passed >>

\* A second build() is followed under the avatar outcomes of the first.
OutcomeAllowed(o) == IF builds = 1 THEN TRUE ELSE prevOutcomes[i + 1] = o

\* loadImage(player.avatarUrl) settles, after any delay
FetchSettle ==
    /\ pc = "await"
    /\ fetch = "pending"
    /\ \/ /\ IF OutcomeAllowed("drawn") THEN TRUE ELSE OutcomeAllowed("drawFailed")
          /\ fetch' = "resolved"
       \/ /\ OutcomeAllowed("fetchFailed")
          /\ fetch' = "rejected"
    /\ UNCHANGED << config, calls, pc, builds, locals, log, outcomes, history, passed >>

\* loadImage rejected and the catch is entered: the error is logged
AvatarFetchRethrown ==
    /\ fetch = "rejected"
    /\ outcomes' = Append(outcomes, "fetchFailed")
    /\ pc' = "rejected"
    /\ UNCHANGED << ctx, ctxStack, log >>

AvatarFetchFailed ==
    /\ fetch = "rejected"
    /\ outcomes' = Append(outcomes, "fetchFailed")
    /\ pc' = "details"
    /\ UNCHANGED << ctx, ctxStack, log >>

\* save, clip to the circle, drawImage, restore
AvatarDrawn ==
    /\ fetch = "resolved"
    /\ OutcomeAllowed("drawn")
    /\ outcomes' = Append(outcomes, "drawn")
    /\ log' = Append(log, Op([ctx EXCEPT !.clip = @ \cup { i }], "drawImage", "avatar", i,
                             usersToRender[i + 1].avatarUrl,
                             140, RowY(i) + 15, Whole(60), 60))
    /\ pc' = "details"
    /\ UNCHANGED << ctx, ctxStack >>

\* drawImage throws after save and clip: restore is skipped, the catch logs
AvatarDrawFailed ==
    /\ fetch = "resolved"
    /\ OutcomeAllowed("drawFailed")
    /\ outcomes' = Append(outcomes, "drawFailed")
    /\ ctxStack' = Append(ctxStack, ctx)
    /\ ctx' = [ctx EXCEPT !.clip = @ \cup { i }]
    /\ pc' = "details"
    /\ UNCHANGED log

\* the try block after the await, and its catch
AvatarStep ==
    /\ pc = "await"
    /\ fetch \in { "resolved", "rejected" }
    /\ \/ AvatarFetchFailed
       \/ AvatarDrawn
       \/ AvatarDrawFailed
    /\ fetch' = "none"
    /\ UNCHANGED << config, calls, builds, usersToRender, headerHeight, canvas,
                    i, spot, history, passed >>

\* player.neededXp > 0 ? player.xp / player.neededXp : 0
Progress(player) ==
    IF player.neededXp > 0 THEN Div(player.xp, player.neededXp) ELSE Whole(0)

\* `${player.xp} / ${player.neededXp}`
XpText(player) == ToString(player.xp) \o " / " \o ToString(player.neededXp)

\* this.rankVisible ? 200 : 350
BarWidthOf(visible) == IF visible THEN BarNarrow ELSE BarWide

\* barWidth * progress
FillWidthUnclamped(barWidth, progress) == Scale(barWidth, progress)

\* barWidth * Math.min(progress, 1)
FillWidth(barWidth, progress) == Scale(barWidth, MinOne(progress))

\* if (rank)
RankShownWheneverFound(visible, rank) == rank # << >>

\* if (this.rankVisible && rank)
RankShown(visible, rank) == visible /\ rank # << >>

\* nickname, level, progress bar, xp text and rank label, to the end of the
\* loop body
RowDetails ==
    /\ pc = "details"
    /\ LET player == usersToRender[i + 1]
           y == RowY(i)
           c1 == [ctx EXCEPT !.textAlign = "left",
                             !.fillStyle = Color("#FFFFFF"),
                             !.font = FontOr("userNickname", "bold 22px Roboto")]
           o1 == Op(c1, "fillText", "nickname", i, player.nickname, 225, y + 40, Whole(0), 0)
           c2 == [c1 EXCEPT !.fillStyle = Color("#B9BBBE"),
                            !.font = FontOr("userLevel", "16px Roboto")]
           o2 == Op(c2, "fillText", "level", i, "Level " \o ToString(player.level),
                    225, y + 65,
                    Whole(0), 0)
           barWidth == BarWidthOf(rankVisible)
           progress == Progress(player)
           c3 == [c2 EXCEPT !.fillStyle = Color("rgba(0, 0, 0, 0.3)")]
           o3 == Op(c3, "fill", "track", i, "", BarStartX, y + 45, Whole(barWidth), BarHeight)
           xpGradient ==
               AddColorStop(
                   AddColorStop(Gradient("linear", <<BarStartX, 0, BarStartX + barWidth, 0>>),
                                Whole(0), xpBarColors.primary),
                   Whole(1), xpBarColors.secondary)
           c4 == IF Positive(progress) THEN [c3 EXCEPT !.fillStyle = xpGradient] ELSE c3
           o4 == Op(c4, "fill", "bar", i, "", BarStartX, y + 45,
                    FillWidth(barWidth, progress), BarHeight)
           c5 == [c4 EXCEPT !.font = FontOr("xpText", "bold 10px Roboto"),
                            !.fillStyle = Color("#FFFFFF"),
                            !.textAlign = "right"]
           o5 == Op(c5, "fillText", "xp", i, XpText(player),
                    BarStartX + barWidth, y + 70, Whole(0), 0)
           rank == getRankForXp(player.xp)
           shown == RankShown(rankVisible, rank)
           c6 == IF shown
                 THEN [c5 EXCEPT !.textAlign = "right",
                                 !.font = FontOr("rankText", "bold 22px Roboto"),
                                 !.fillStyle = Color(rank[1].color)]
                 ELSE c5
           o6 == Op(c6, "fillText", "rank", i, rank[1].name, Width - 50, y + 58, Whole(0), 0)
       IN /\ ctx' = c6
          /\ log' = log \o << o1, o2, o3 >>
                        \o (IF Positive(progress) THEN << o4 >> ELSE << >>)
                        \o << o5 >>
                        \o (IF shown THEN << o6 >> ELSE << >>)
    /\ i' = i + 1
    /\ pc' = "row"
    /\ UNCHANGED << config, calls, builds, usersToRender, headerHeight, canvas,
                    ctxStack, spot, fetch, outcomes, history, passed >>

\* the loop is over: canvas.toBuffer('image/png') is returned
Finish ==
    /\ pc = "row"
    /\ i >= Len(usersToRender)
    /\ pc' = "done"
    /\ UNCHANGED << config, calls, builds, locals, fetch, log, outcomes, history, passed >>

Next ==
    \/ \E u \in UserLists : setUsers(u)
    \/ \E h \in Headers : setHeader(h)
    \/ \E p \in Podiums : setPodium(p)
    \/ \E v \in BOOLEAN : showRank(v)
    \/ \E t \in TierLists : setRankTiers(t)
    \/ \E c \in XpBars : setXpBarColors(c)
    \/ \E f \in FontInputs : setFontStyles(f)
    \/ \E n \in Limits : setLimit(n)
    \/ \E b \in Backgrounds : setBackground(b)
    \/ BuildBegin
    \/ PaintSolid
    \/ PaintGradient
    \/ AuroraBase
    \/ AuroraSpot
    \/ AuroraEnd
    \/ DrawHeader
    \/ RowBegin
    \/ FetchSettle
    \/ AvatarStep
    \/ RowDetails
    \/ Finish

Spec == Init /\ [][Next]_vars

\* --------------------------------------------- build() of a configured builder
DefaultBackground == SolidBg("#0D0E12")
DefaultHeader == [title |-> "Leaderboard"]
DefaultXpBar == [primary |-> "#5865F2", secondary |-> "#A458F2"]

LimitValues == { NoLimit } \cup { << n >> : n \in Limits }
HeaderValues == { DefaultHeader } \cup Headers
PodiumValues == { << >> } \cup Podiums
TierValues == { SortTiers(t) : t \in TierLists }
XpBarValues == { DefaultXpBar } \cup XpBars
FontValues == { << >> } \cup FontInputs \cup { Merge(f, g) : f, g \in FontInputs }
BackgroundValues == { DefaultBackground } \cup Backgrounds

InitBuild ==
    \E u \in UserLists :
        \/ \E l \in LimitValues, h \in HeaderValues, v \in BOOLEAN :
              Configured(u, l, DefaultBackground, h, << >>, v, << >>,
                         DefaultXpBar, << >>)
        \/ \E t \in TierValues, v \in BOOLEAN, l \in LimitValues :
              Configured(u, l, DefaultBackground, DefaultHeader, << >>, v, t,
                         DefaultXpBar, << >>)
        \/ \E b \in BackgroundValues, h \in HeaderValues, x \in XpBarValues :
              Configured(u, NoLimit, b, h, << >>, TRUE, << >>, x, << >>)
        \/ \E p \in PodiumValues, l \in LimitValues, f \in FontValues :
              Configured(u, l, DefaultBackground, DefaultHeader, p, TRUE, << >>,
                         DefaultXpBar, f)

NextBuild ==
    \/ BuildBegin
    \/ PaintSolid
    \/ PaintGradient
    \/ AuroraBase
    \/ AuroraSpot
    \/ AuroraEnd
    \/ DrawHeader
    \/ RowBegin
    \/ FetchSettle
    \/ AvatarStep
    \/ RowDetails
    \/ Finish

SpecBuild == InitBuild /\ [][NextBuild]_vars

\* ------------------------------------------------ two build() calls in a row
PlainProfile(u, l) ==
    Configured(u, l, DefaultBackground, DefaultHeader, << >>, TRUE, << >>,
               DefaultXpBar, << >>)
StyledProfile(u, l) ==
    \E b \in { GradientBg("radial", SubSeq(Palette, 1, 2)),
                AuroraBg("#0D0E12", SubSeq(SpotPool, 1, MaxSpots)) },
       v \in BOOLEAN :
        Configured(u, l, b, [title |-> "Global", subtitle |-> "Top players"],
                   [colors |-> [first |-> "#FFD700", second |-> "#C0C0C0"]], v,
                   SortTiers(<< [name |-> "Novice", color |-> "#B9BBBE", minXp |-> 1],
                                [name |-> "Pro", color |-> "#5865F2", minXp |-> 2] >>),
                   [primary |-> "#00ff00", secondary |-> "#00aa00"],
                   [xpText |-> "bold 12px Arial"])

InitRebuild ==
    \E u \in UserLists, l \in LimitValues :
        PlainProfile(u, l) \/ StyledProfile(u, l)

NextRebuild == NextBuild \/ BuildAgain

SpecRebuild == InitRebuild /\ [][NextRebuild]_vars

\* ------------------------------------------- build() of longer leaderboards
\* participant lists that reach past the podium: the roster, repeated
LongLists ==
    { [k \in 1..n |-> Roster[((k - 1) % Len(Roster)) + 1]] : n \in 0..MaxRows }

\* setPodium arguments: no colors object, and a colour given as ''
PodiumInputs ==
    PodiumValues
      \cup { [colors |-> [first |-> "", second |-> "#C0C0C0"]],
             [colors |-> [first |-> "#FFD700", third |-> "#CD7F32"]] }

InitPodium ==
    \E u \in LongLists, l \in { NoLimit, << 3 >> }, p \in PodiumInputs :
        Configured(u, l, DefaultBackground, DefaultHeader, p, TRUE, << >>,
                   DefaultXpBar, << >>)

NextPodium ==
    \/ BuildBegin
    \/ PaintSolid
    \/ DrawHeader
    \/ RowBegin
    \/ FetchSettle
    \/ AvatarStep
    \/ RowDetails
    \/ Finish

SpecPodium == InitPodium /\ [][NextPodium]_vars

\* ================================================================= claims
Elements(list) == { list[k] : k \in DOMAIN list }

HasPart(r, part) == \E k \in DOMAIN log : log[k].row = r /\ log[k].part = part
PartOp(r, part) == log[CHOOSE k \in DOMAIN log : log[k].row = r /\ log[k].part = part]
\* the loop body of index r has run to its end
RowFinished(r) == r < i
Rendered == 0..(Len(usersToRender) - 1)

\* what a row shows besides its avatar
RowChromeDrawn(r) ==
    HasPart(r, "card") /\ HasPart(r, "border") /\ HasPart(r, "position")
RowTextDrawn(r) ==
    LET player == usersToRender[r + 1]
    IN /\ HasPart(r, "nickname") /\ PartOp(r, "nickname").text = player.nickname
       /\ HasPart(r, "level")
       /\ HasPart(r, "track")
       /\ HasPart(r, "xp")
       /\ (player.xp > 0 /\ player.neededXp > 0) => HasPart(r, "bar")
       /\ (rankVisible /\ \E t \in Elements(rankTiers) : t.minXp <= player.xp)
             => HasPart(r, "rank")

\* C2: a row whose avatar fetch failed does not make build() reject: the row
\* has no avatar but its nickname, level, progress bar and rank label are
\* drawn under the context state the row began with, every later row is
\* drawn, and the image has the height of the rendered rows.
AvatarFailureIsolated ==
    \A k \in DOMAIN outcomes :
        outcomes[k] = "fetchFailed" =>
            /\ pc # "rejected"
            /\ ~HasPart(k - 1, "avatar")
            /\ RowFinished(k - 1) =>
                  /\ RowTextDrawn(k - 1)
                  /\ \A part \in { "nickname", "level", "track", "xp" } :
                        PartOp(k - 1, part).clip = PartOp(k - 1, "card").clip
            /\ pc = "done" =>
                  /\ Len(outcomes) = Len(usersToRender)
                  /\ \A r \in Rendered : r >= k => RowChromeDrawn(r) /\ RowTextDrawn(r)
                  /\ canvas.height = headerHeight + 100 * Len(usersToRender) + 20

\* the first row's fetch failed and a later row was drawn with its avatar
AvatarFailureWitness ==
    /\ pc = "done"
    /\ Len(outcomes) >= 2
    /\ outcomes[1] = "fetchFailed"
    /\ outcomes[2] = "drawn"
    /\ HasPart(1, "avatar")

\* C3: rows are painted in participant order: the draw operations are ordered
\* by row, a fetch is outstanding only while build() is suspended on it, and
\* when the fetch of row i is started or outstanding every earlier row is
\* settled and drawn to its end and nothing of row i beyond its card,
\* border, accent and position is drawn.
RowsInOrder ==
    /\ \A k \in 1..(Len(log) - 1) : log[k].row <= log[k + 1].row
    /\ \A k \in DOMAIN log : log[k].row <= (IF pc \in { "await", "details" } THEN i ELSE i - 1)
    /\ fetch # "none" => pc = "await"
    /\ pc \in { "row", "await", "details", "done" } =>
          /\ Len(outcomes) = (IF pc = "details" THEN i + 1 ELSE i)
          /\ \A r \in 0..(i - 1) : RowChromeDrawn(r) /\ RowTextDrawn(r)
    /\ pc = "await" =>
          /\ RowChromeDrawn(i)
          /\ \A part \in { "avatar", "nickname", "level", "track", "bar", "xp", "rank" } :
                ~HasPart(i, part)

\* the second row's fetch is outstanding after the first row's failed
RowsInOrderWitness ==
    /\ pc = "await"
    /\ fetch = "pending"
    /\ i = 1
    /\ outcomes = << "fetchFailed" >>
    /\ HasPart(0, "xp")

\* C4: build() renders the first `limit` participants when the limit is set
\* and positive, and the full list for every other limit (unset, zero,
\* negative).
LimitKeepsFirstOrAll ==
    pc # "config" =>
        usersToRender =
            IF limit # NoLimit /\ limit[1] > 0
            THEN SubSeq(users, 1, Min(limit[1], Len(users)))
            ELSE users

\* C5: a gradient background of one colour lets build() complete and fills
\* the canvas with a gradient whose stops all carry that colour at an offset
\* that is a number in [0, 1].
SingleColourGradientUniform ==
    ( /\ background.kind = "object"
      /\ background.type # "aurora"
      /\ Len(background.colors) = 1
      /\ pc \notin { "config", "background" } ) =>
        /\ pc # "rejected"
        /\ Len(log) >= 1
        /\ log[1].part = "background"
        /\ \A k \in DOMAIN log[1].style.stops :
              /\ InUnit(log[1].style.stops[k].offset)
              /\ log[1].style.stops[k].color = background.colors[1]

\* C6: the canvas is 900 wide and headerHeight + 100 * N + 20 high, N the
\* number of rendered rows (0 allowed) and headerHeight 150 exactly when the
\* subtitle is present and non-empty, else 120; the rows drawn are the N
\* rows, each card 100 below the one before, starting at headerHeight.
CanvasSize ==
    pc # "config" =>
        LET N == Len(usersToRender)
            subtitled == "subtitle" \in DOMAIN header /\ header.subtitle # ""
            hh == IF subtitled THEN 150 ELSE 120
        IN /\ canvas.width = 900
           /\ canvas.height = hh + 100 * N + 20
           /\ \A k \in DOMAIN log :
                 /\ log[k].row < N
                 /\ log[k].part = "card" =>
                       /\ log[k].y = hh + 100 * log[k].row
                       /\ log[k].y + 100 <= canvas.height - 20
                 /\ log[k].part = "background" =>
                       log[k].w = <<900, 1>> /\ log[k].h = canvas.height
           /\ pc = "done" => \A r \in 0..(N - 1) : HasPart(r, "card")

\* a limit cut the list and the subtitle is present but empty
CanvasSizeWitness ==
    /\ pc = "done"
    /\ "subtitle" \in DOMAIN header
    /\ header.subtitle = ""
    /\ Len(usersToRender) = 1
    /\ Len(users) = 2
    /\ canvas.height = 240

\* C7: every draw operation is made at global alpha 1.0 except the aurora
\* spots, which are composited at 0.4 in the order given, right after the
\* base-colour fill; the alpha is 1.0 from the header on, for every
\* background and any number of spots.
IsAurora == background.kind = "object" /\ background.type = "aurora"
AlphaOpaqueOutsideAurora ==
    /\ \A k \in DOMAIN log :
          IF IsAurora /\ 2 <= k /\ k <= 1 + Len(background.spots)
          THEN /\ log[k].part = "spot"
               /\ log[k].globalAlpha = <<4, 10>>
               /\ log[k].style.geom[1] = background.spots[k - 1].x
               /\ log[k].style.geom[6] = background.spots[k - 1].radius
               /\ log[k].style.stops[1].color = background.spots[k - 1].color
          ELSE /\ log[k].part # "spot"
               /\ log[k].globalAlpha = <<1, 1>>
    /\ (IsAurora /\ Len(log) >= 1) =>
          /\ log[1].part = "background"
          /\ log[1].style = Color(background.baseColor)
    /\ pc \in { "header", "row", "await", "details", "done" } =>
          /\ ctx.globalAlpha = <<1, 1>>
          /\ IsAurora => Len(log) >= 1 + Len(background.spots)

\* an aurora with spots, the header and a row drawn after them
AlphaWitness ==
    /\ IsAurora
    /\ Len(background.spots) >= 1
    /\ pc = "done"
    /\ HasPart(0, "xp")
    /\ log[2].globalAlpha = <<4, 10>>

\* C8: the progress-bar fill is drawn exactly when neededXp > 0 and xp > 0,
\* it is barWidth * min(xp / neededXp, 1) wide and so no wider than the
\* track (200 with the rank column, 350 without), and the text is the raw
\* "xp / neededXp".
RawXpText == [ann |-> "3 / 2", bob |-> "1 / 2", cyd |-> "0 / 2", dee |-> "2 / 0"]
BarFillClamped ==
    \A r \in Rendered :
        RowFinished(r) =>
            LET player == usersToRender[r + 1]
                barWidth == IF rankVisible THEN 200 ELSE 350
            IN /\ PartOp(r, "track").w = <<barWidth, 1>>
               /\ HasPart(r, "bar") <=> (player.neededXp > 0 /\ player.xp > 0)
               /\ HasPart(r, "bar") =>
                     /\ NumEq(PartOp(r, "bar").w,
                              <<barWidth * Min(player.xp, player.neededXp), player.neededXp>>)
                     /\ AtMost(PartOp(r, "bar").w, barWidth)
               /\ PartOp(r, "xp").text = RawXpText[player.nickname]

\* xp above neededXp with the rank column hidden: a full 350 fill, raw text
BarFillWitness ==
    /\ pc = "done"
    /\ ~rankVisible
    /\ Len(usersToRender) >= 1
    /\ usersToRender[1].xp > usersToRender[1].neededXp
    /\ HasPart(0, "bar")
    /\ NumEq(PartOp(0, "bar").w, <<350, 1>>)
    /\ PartOp(0, "xp").text = "3 / 2"

\* C9: a row has a rank label exactly when the rank column is visible and a
\* tier qualifies for the participant's xp; the label is the name of the
\* tier getRankForXp returns, in its colour; without one the row is still
\* drawn to its end.
RankLabelWhenVisibleAndFound ==
    \A r \in Rendered :
        RowFinished(r) =>
            LET player == usersToRender[r + 1]
                qualifies == \E t \in Elements(rankTiers) : t.minXp <= player.xp
            IN /\ HasPart(r, "rank") <=> (rankVisible /\ qualifies)
               /\ HasPart(r, "rank") =>
                     /\ PartOp(r, "rank").text = getRankForXp(player.xp)[1].name
                     /\ PartOp(r, "rank").style = Color(getRankForXp(player.xp)[1].color)
               /\ HasPart(r, "xp")
               /\ pc # "rejected"

\* one row with a label and one below every threshold without
RankLabelWitness ==
    /\ pc = "done"
    /\ rankVisible
    /\ rankTiers # << >>
    /\ \E r1, r2 \in Rendered : HasPart(r1, "rank") /\ ~HasPart(r2, "rank")

\* C10: no step of build() changes a field of the builder, and a second
\* build() that meets the same avatar outcomes commits the same draw
\* operations as the first.
BuildKeepsConfig ==
    [][ pc' # "config" =>
          /\ config' = config
          /\ (pc' = "done" /\ builds' = 2 /\ outcomes' = prevOutcomes')
                => log' = prevLog' ]_vars

\* a second build() of a builder with a limit that cuts the list
BuildKeepsConfigWitness ==
    /\ pc = "done"
    /\ builds = 2
    /\ Len(usersToRender) < Len(users)
    /\ Len(outcomes) >= 1
    /\ outcomes[1] = "fetchFailed"
    /\ outcomes = prevOutcomes
    /\ log = prevLog

\* index of a tier in a list without repeated tiers
IndexIn(list, t) == CHOOSE k \in DOMAIN list : list[k] = t

\* C11: tiers of the list passed to setRankTiers that share a minXp stand in
\* rankTiers in the order the caller gave them, and for an xp whose highest
\* qualifying minXp is shared, getRankForXp returns the tier that came first
\* in the caller's list among those sharing it.
TiesKeepInputOrder ==
    /\ \A a, b \in DOMAIN tiersPassed :
          (a < b /\ tiersPassed[a].minXp = tiersPassed[b].minXp) =>
              /\ tiersPassed[a] \in Elements(rankTiers)
              /\ tiersPassed[b] \in Elements(rankTiers)
              /\ IndexIn(rankTiers, tiersPassed[a]) < IndexIn(rankTiers, tiersPassed[b])
    /\ \A xp \in XpRange :
          LET r == getRankForXp(xp)
          IN r # << >> =>
                \A a \in DOMAIN tiersPassed :
                    tiersPassed[a].minXp = r[1].minXp =>
                        IndexIn(tiersPassed, r[1]) <= a

\* two tiers of equal minXp were passed: the first of the caller's list is the
\* rank at their threshold, the second is never returned
TiesWitness ==
    /\ calls > 0
    /\ Len(tiersPassed) >= 2
    /\ \E a, b \in DOMAIN tiersPassed :
          /\ a < b
          /\ tiersPassed[a].minXp = tiersPassed[b].minXp
          /\ tiersPassed[a].minXp \in XpRange
          /\ getRankForXp(tiersPassed[a].minXp) = << tiersPassed[a] >>
          /\ \A xp \in XpRange : getRankForXp(xp) # << tiersPassed[b] >>

\* the accent colour setPodium gave for a 1-based position, "" when none
PodiumKeys == << "first", "second", "third" >>
AccentConfigured(position) ==
    IF position \in 1..3 /\ Has(podium, "colors")
    THEN Field(podium.colors, PodiumKeys[position])
    ELSE ""

\* C12: a row whose position number is drawn has the 2px accent border
\* exactly when its 1-based position is 1, 2 or 3 and a (non-empty) colour is
\* configured for that same position; the accent is one stroke of the row's
\* card in that colour, drawn after the base border, and a row at position 4
\* or later has none.
PodiumAccentOnlyOwnPosition ==
    \A r \in Rendered :
        HasPart(r, "position") =>
            LET accent == AccentConfigured(r + 1)
                strokes == { k \in DOMAIN log : log[k].row = r /\ log[k].part = "podium" }
            IN /\ (strokes # {}) <=> (accent # "")
               /\ Cardinality(strokes) <= 1
               /\ r + 1 >= 4 => strokes = {}
               /\ \A k \in strokes :
                     /\ log[k].op = "stroke"
                     /\ log[k].style = Color(accent)
                     /\ log[k].lineWidth = 2
                     /\ log[k].y = RowY(r)
                     /\ \E b \in 1..(k - 1) :
                           log[b].row = r /\ log[b].part = "border"

\* four rows built with accents for second and third place only: rows 2 and
\* 3 carry their own colours, rows 1 and 4 carry none
PodiumAccentWitness ==
    /\ pc = "done"
    /\ Len(usersToRender) >= 4
    /\ Has(podium, "colors")
    /\ DOMAIN podium.colors = { "second", "third" }
    /\ ~HasPart(0, "podium")
    /\ HasPart(1, "podium") /\ PartOp(1, "podium").style = Color(podium.colors.second)
    /\ HasPart(2, "podium") /\ PartOp(2, "podium").style = Color(podium.colors.third)
    /\ ~HasPart(3, "podium")

\* C13: once the avatar step of a row is over, whatever its outcome, the
\* context's saved-state stack is as deep and its clip region as wide as
\* before the step (empty and the whole canvas, as getContext left them), so
\* no draw other than the avatar image itself is committed under an avatar
\* clip.
SaveRestoreBalanced ==
    /\ pc \in { "details", "row", "done" } =>
          /\ Len(ctxStack) = 0
          /\ ctx.clip = {}
    /\ \A k \in DOMAIN log : log[k].part # "avatar" => log[k].clip = {}

====
